---- MODULE Spec2Model ----
(***************************************************************************)
(* TAKtick: a single-threaded select() relay.  Each accepted connection is *)
(* a participant with a growable receive buffer; parse_data drains a ready *)
(* socket, extracts a message ending in "</event>" and share_data writes   *)
(* it to every participant; terminate_participants removes closed entries. *)
(*                                                                         *)
(* The participant list (a singly linked list in the C code) is a sequence *)
(* of records in list order.  The environment (clients, operator, signal)  *)
(* is modelled by the Client* actions, the key read in Kbhit and the       *)
(* interrupted select() of SelectInterrupted.                              *)
(***************************************************************************)
EXTENDS Integers, Sequences, FiniteSets, TLC

(* ---- bounds of the model ---- *)
MaxSock     == 3   \* number of connection descriptors the process can hold
\* Spec: three participants, one message
MaxConnects == 3   \* connections the clients attempt in one run
MaxUnits    == 1   \* units (payload byte or terminator) the clients send in one run
MaxCloses   == 1   \* connections the clients close or reset in one run
\* SpecPair: two participants, two messages
MaxPairUnits == 2
\* SpecFramer: one connection, a longer stream
MaxStreamUnits == 4
\* SpecGrowth: one connection, a stream of payload blocks without terminator
MaxBlocks == 4
\* bytes the kernel queues on a connection before the sender has to wait
MaxInflight == 32

(* ---- program constants ---- *)
terminator_string == <<"<", "/", "e", "v", "e", "n", "t", ">">>
terminator_length == 8
\* 65536 in the source; scaled together with IntWidth so that growth happens
buffer_chunk_size == 16
\* width of the program's int (32 in the source), scaled likewise
IntWidth == 8

LISTEN   == 0              \* local_socket
STDIN    == 0 - 2          \* STDIN_FILENO, the terminal
Sockets  == 1..MaxSock     \* descriptors accept() can return
EAGAIN     == "EAGAIN"       \* errno of a recv() that would block
ECONNRESET == "ECONNRESET"   \* errno of a recv() on a reset connection
NOERROR    == "none"

VARIABLES
  list,               \* ctx.participant_list_base: the linked list, in order
  participant_count,  \* ctx.participant_count
  pc,                 \* position of main
  reads,              \* fd_set reads after select()
  rc,                 \* result of select()
  cursor,             \* pnt of service_participants, as an index into list
  echo,               \* terminal echo (changemode): TRUE = enabled
  net,                \* per descriptor: the connection as the kernel sees it
  backlog,            \* connections waiting in the listen queue
  connects,           \* connections the clients may still attempt
  units,              \* units the clients may still send
  blocks,             \* payload blocks the clients may still send
  closes,             \* closes or resets the clients may still do
  flood,              \* TRUE: a client sends messages without ever pausing
  received,           \* per descriptor: all bytes recv() returned (history)
  emitted,            \* per descriptor: messages passed to share_data (history)
  io                  \* socket calls made by the last step (history)

vars == <<list, participant_count, pc, reads, rc, cursor, echo, net,
          backlog, connects, units, blocks, closes, flood,
          received, emitted, io>>

(* ---- integer arithmetic of the program ---- *)
\* value of a signed IntWidth-bit int holding x (two's complement wrap)
ToInt(x) ==
  LET m == 2 ^ IntWidth
      r == x % m
  IN  IF r >= m \div 2 THEN r - m ELSE r

Min(a, b) == IF a < b THEN a ELSE b

(* ---- memmem ---- *)
\* 0-based offset of the first occurrence of needle in haystack, -1 for NULL
RECURSIVE memmem_loop(_, _, _)
memmem_loop(haystack, needle, h) ==
  IF Len(haystack) - h < Len(needle) THEN -1
  ELSE IF SubSeq(haystack, h + 1, h + Len(needle)) = needle THEN h
  ELSE memmem_loop(haystack, needle, h + 1)

memmem(haystack, needle) ==
  IF Len(haystack) = 0 \/ Len(needle) = 0 THEN -1
  ELSE memmem_loop(haystack, needle, 0)

(* ---- the participant list ---- *)
SocketsOf(lst) == {lst[i].socket : i \in 1..Len(lst)}

\* mutant: participant_count is incremented before the result of accept()
\* is looked at
add_participant_counts_first(lst, count, participant_socket) ==
  IF participant_socket <= 0 THEN [list |-> lst, count |-> ToInt(count + 1)]
  ELSE IF \E i \in 1..Len(lst) : lst[i].socket = participant_socket
       THEN [list |-> lst, count |-> ToInt(count + 1)]
  ELSE [list  |-> Append(lst, [socket |-> participant_socket, closed |-> FALSE,
                               buffer |-> <<>>, length |-> 0, max_length |-> 0]),
        count |-> ToInt(count + 1)]

\* add_participant after accept() returned participant_socket (<= 0: failure)
add_participant(lst, count, participant_socket) ==
  IF participant_socket <= 0 THEN [list |-> lst, count |-> count]
  ELSE IF \E i \in 1..Len(lst) : lst[i].socket = participant_socket
       THEN [list |-> lst, count |-> count]
  ELSE [list  |-> Append(lst, [socket |-> participant_socket, closed |-> FALSE,
                               buffer |-> <<>>, length |-> 0, max_length |-> 0]),
        count |-> ToInt(count + 1)]

\* mutant: after freeing an entry the walk resumes at next_pnt->next, so the
\* entry that follows a removed one is kept without being looked at
RECURSIVE terminate_loop_skip_after_free(_, _, _, _, _, _)
terminate_loop_skip_after_free(lst, i, kept, count, gone, force_all) ==
  IF i > Len(lst) THEN [list |-> kept, count |-> count, gone |-> gone]
  ELSE IF lst[i].closed \/ force_all
       THEN terminate_loop_skip_after_free(
              lst, i + 2,
              IF i + 1 <= Len(lst) THEN Append(kept, lst[i + 1]) ELSE kept,
              ToInt(count - 1), Append(gone, lst[i].socket), force_all)
       ELSE terminate_loop_skip_after_free(lst, i + 1, Append(kept, lst[i]),
                                           count, gone, force_all)

\* the while loop of terminate_participants: pnt is lst[i], kept is the list
\* already relinked behind prev_pnt, gone the descriptors passed to close()
RECURSIVE terminate_loop(_, _, _, _, _, _)
terminate_loop(lst, i, kept, count, gone, force_all) ==
  IF i > Len(lst) THEN [list |-> kept, count |-> count, gone |-> gone]
  ELSE IF lst[i].closed \/ force_all
       THEN terminate_loop(lst, i + 1, kept, ToInt(count - 1),
                           Append(gone, lst[i].socket), force_all)
       ELSE terminate_loop(lst, i + 1, Append(kept, lst[i]), count, gone, force_all)

terminate_participants(lst, count, force_all) ==
  terminate_loop(lst, 1, <<>>, count, <<>>, force_all)

\* a socket call, as logged in io
Call(op, sock, closed, data, n, errno) ==
  [op |-> op, sock |-> sock, closed |-> closed, data |-> data, n |-> n,
   errno |-> errno]

\* mutant: the walk starts at participant_list_base->next
share_data_from_next(buffer, length, lst, outcome) ==
  [list  |-> [i \in 1..Len(lst) |->
                IF i > 1 /\ outcome[i] <= 0
                THEN [lst[i] EXCEPT !.closed = TRUE] ELSE lst[i]],
   sends |-> [i \in 1..(Len(lst) - 1) |->
                Call("send", lst[i + 1].socket, lst[i + 1].closed,
                     SubSeq(buffer, 1, length), outcome[i + 1], NOERROR)]]

\* mutant: the walk stops at the first send() that fails
share_data_stop_at_failure(buffer, length, lst, outcome) ==
  LET failed == {i \in 1..Len(lst) : outcome[i] <= 0}
      last   == IF failed = {} THEN Len(lst)
                ELSE CHOOSE i \in failed : \A j \in failed : i <= j
  IN  [list  |-> [i \in 1..Len(lst) |->
                    IF i = last /\ outcome[i] <= 0
                    THEN [lst[i] EXCEPT !.closed = TRUE] ELSE lst[i]],
       sends |-> [i \in 1..last |->
                    Call("send", lst[i].socket, lst[i].closed,
                         SubSeq(buffer, 1, length), outcome[i], NOERROR)]]

\* mutant: the walk goes from the tail of the list to its base
share_data_from_tail(buffer, length, lst, outcome) ==
  [list  |-> [i \in 1..Len(lst) |->
                IF outcome[i] <= 0 THEN [lst[i] EXCEPT !.closed = TRUE] ELSE lst[i]],
   sends |-> [i \in 1..Len(lst) |->
                Call("send", lst[Len(lst) + 1 - i].socket, lst[Len(lst) + 1 - i].closed,
                     SubSeq(buffer, 1, length), outcome[Len(lst) + 1 - i], NOERROR)]]

\* mutant: an entry whose send() failed is unlinked on the spot
share_data_unlink_failed(buffer, length, lst, outcome) ==
  [list  |-> SelectSeq([i \in 1..Len(lst) |->
                          IF outcome[i] <= 0
                          THEN [lst[i] EXCEPT !.closed = TRUE] ELSE lst[i]],
                       LAMBDA p : ~p.closed),
   sends |-> [i \in 1..Len(lst) |->
                Call("send", lst[i].socket, lst[i].closed,
                     SubSeq(buffer, 1, length), outcome[i], NOERROR)]]

\* share_data(buffer, length, ctx): outcome[i] is what send() returned for the
\* i-th entry; sends are the send() calls made, in order
share_data(buffer, length, lst, outcome) ==
  [list  |-> [i \in 1..Len(lst) |->
                IF outcome[i] <= 0 THEN [lst[i] EXCEPT !.closed = TRUE] ELSE lst[i]],
   sends |-> [i \in 1..Len(lst) |->
                Call("send", lst[i].socket, lst[i].closed,
                     SubSeq(buffer, 1, length), outcome[i], NOERROR)]]

\* set_reads: every socket of the list is put in the fd_set
set_reads(state, lst) == state \cup SocketsOf(lst)

(* ---- parse_data, one iteration of its do-while loop ---- *)
\* lines 336-342: make room before recv()
grow(p) ==
  IF p.max_length <= 0 \/ ToInt(p.length + buffer_chunk_size) > p.max_length
  THEN [p EXCEPT !.max_length =
          IF p.max_length <= 0 THEN buffer_chunk_size ELSE ToInt(p.max_length * 2)]
  ELSE p

\* mutant: case 0 does not set closed
marks_closed_on_error_only(numRead, errno) ==
  numRead = -1 /\ errno # EAGAIN

\* lines 346-357: the cases of the switch that set closed
marks_closed(numRead, errno) ==
  IF numRead = -1 THEN errno # EAGAIN ELSE numRead = 0

\* mutant: the scan starts at the first byte of the new data
onset_of_new_data(length) == length

\* line 359: where the scan for the terminator starts
onset_of(length) ==
  IF length > terminator_length THEN length - terminator_length ELSE 0

\* lines 359-363: the participant after recv() stored numRead bytes (data) at
\* buffer + length, and size, the length of the message memmem found (0 when
\* it returned NULL)
scan(p, data) ==
  LET onset  == onset_of(p.length)
      length == ToInt(p.length + Len(data))
      buffer == p.buffer \o data
      pnt    == memmem(SubSeq(buffer, onset + 1, length), terminator_string)
  IN  [size |-> IF pnt = -1 THEN 0 ELSE onset + pnt + terminator_length,
       p    |-> [p EXCEPT !.length = length, !.buffer = buffer]]

\* mutant: memmove from pnt instead of pnt + terminator_length
compact_from_match(p, size) ==
  LET length == ToInt(p.length - size)
      from   == size - terminator_length
  IN  [p EXCEPT !.length = length,
                !.buffer = SubSeq(p.buffer, from + 1, from + length)]

\* lines 365-366: drop the first size bytes of the buffer
compact(p, size) ==
  LET length == ToInt(p.length - size)
  IN  [p EXCEPT !.length = length,
                !.buffer = SubSeq(p.buffer, size + 1, size + length)]

(* ---- the kernel's side of the sockets ---- *)
FreeConn == [state |-> "free", inflight |-> <<>>, peer |-> "up"]
OpenConn == [state |-> "open", inflight |-> <<>>, peer |-> "up"]

\* a socket select() reports readable: data, end of stream or an error pending
Readable(s) == net[s].state = "open"
               /\ (net[s].inflight # <<>> \/ net[s].peer # "up")

\* what recv(s, ., space, 0) can return: [n, errno, data]
RecvResults(s, space) ==
  IF net[s].peer = "rst" THEN {[n |-> -1, errno |-> ECONNRESET, data |-> <<>>]}
  ELSE IF space = 0 THEN {[n |-> 0, errno |-> NOERROR, data |-> <<>>]}
  ELSE IF net[s].inflight # <<>>
       THEN {[n |-> k, errno |-> NOERROR, data |-> SubSeq(net[s].inflight, 1, k)] :
               k \in 1..(IF space < 0 THEN Len(net[s].inflight)
                         ELSE Min(Len(net[s].inflight), space))}
  ELSE IF net[s].peer = "fin" THEN {[n |-> 0, errno |-> NOERROR, data |-> <<>>]}
  ELSE {[n |-> -1, errno |-> EAGAIN, data |-> <<>>]}

\* what send(., ., length, MSG_NOSIGNAL) can return: error, partial, complete
SendOutcomes(length) ==
  {-1, length} \cup {k \in {length - 1} : 0 < k}

LowestFree == CHOOSE s \in Sockets :
                /\ net[s].state = "free"
                /\ \A t \in Sockets : net[t].state = "free" => s <= t

(* ---- initial state: main up to the for (;;) loop ---- *)
InitProgram ==
  /\ list = <<>>
  /\ participant_count = 0
  /\ pc = "select"
  /\ reads = {}
  /\ rc = 0
  /\ cursor = 1
  /\ echo = FALSE
  /\ net = [s \in Sockets |-> FreeConn]
  /\ backlog = 0
  /\ received = [s \in Sockets |-> <<>>]
  /\ emitted = [s \in Sockets |-> <<>>]
  /\ io = <<>>

Init ==
  /\ InitProgram
  /\ connects = MaxConnects
  /\ units = MaxUnits
  /\ blocks = 0
  /\ closes = MaxCloses
  /\ flood = FALSE

InitPair ==
  /\ InitProgram
  /\ connects = 2
  /\ units = MaxPairUnits
  /\ blocks = 0
  /\ closes = MaxCloses
  /\ flood = FALSE

InitFramer ==
  /\ InitProgram
  /\ connects = 1
  /\ units = MaxStreamUnits
  /\ blocks = 0
  /\ closes = 1
  /\ flood = FALSE

\* one client that sends a long stream without a terminator
InitGrowth ==
  /\ InitProgram
  /\ connects = 1
  /\ units = 0
  /\ blocks = MaxBlocks
  /\ closes = 1
  /\ flood = FALSE

\* one client that keeps sending complete messages
InitLive ==
  /\ InitProgram
  /\ connects = 1
  /\ units = 0
  /\ blocks = 0
  /\ closes = 1
  /\ flood = TRUE

progVars == <<list, participant_count, pc, reads, rc, cursor>>
envVars  == <<net, backlog, connects, units, blocks, closes, flood>>
histVars == <<received, emitted>>

(* ---- environment ---- *)
\* The program looks at the network only in select() (every socket and the
\* listen queue) and in recv() (the socket of the participant being drained).
\* A client step taken at another moment cannot be told from the same step
\* taken just before the next of these calls, so client steps on socket s are
\* taken only where the program is about to look at s.
Observed(s) == \/ pc = "select"
               \/ pc = "parse" /\ list[cursor].socket = s

ClientConnect ==
  /\ pc = "select"
  /\ connects > 0
  /\ backlog = 0
  /\ \E s \in Sockets : net[s].state = "free"
  /\ backlog' = 1
  /\ connects' = connects - 1
  /\ io' = <<>>
  /\ UNCHANGED <<progVars, echo, net, units, blocks, closes, flood, histVars>>

Units == {<<"A">>, terminator_string}

\* buffer_chunk_size payload bytes
Block == [i \in 1..buffer_chunk_size |-> "A"]

\* what a client can write in one step, and the budget it is taken from
Writes ==
  {[data |-> u, units |-> 1, blocks |-> 0] : u \in {v \in Units : units > 0}}
  \cup {[data |-> Block, units |-> 0, blocks |-> 1] : b \in {c \in {blocks} : c > 0}}
  \cup {[data |-> terminator_string, units |-> 0, blocks |-> 0] :
           f \in {g \in {flood} : g}}

ClientSend ==
  /\ \E s \in Sockets, w \in Writes :
       /\ Observed(s)
       /\ net[s].state = "open"
       /\ net[s].peer = "up"
       /\ Len(net[s].inflight) + Len(w.data) <= MaxInflight
       /\ net' = [net EXCEPT ![s].inflight = @ \o w.data]
       /\ units' = units - w.units
       /\ blocks' = blocks - w.blocks
  /\ io' = <<>>
  /\ UNCHANGED <<progVars, echo, backlog, connects, closes, flood, histVars>>

\* orderly close by the peer: recv() returns 0 once the data is consumed
ClientClose ==
  /\ closes > 0
  /\ closes' = closes - 1
  /\ \E s \in Sockets :
       /\ Observed(s)
       /\ net[s].state = "open"
       /\ net[s].peer = "up"
       /\ net' = [net EXCEPT ![s].peer = "fin"]
  /\ io' = <<>>
  /\ UNCHANGED <<progVars, echo, backlog, connects, units, blocks, flood, histVars>>

\* connection reset by the peer: pending data is dropped, recv() fails
ClientReset ==
  /\ closes > 0
  /\ closes' = closes - 1
  /\ \E s \in Sockets :
       /\ Observed(s)
       /\ net[s].state = "open"
       /\ net[s].peer = "up"
       /\ net' = [net EXCEPT ![s].peer = "rst", ![s].inflight = <<>>]
  /\ io' = <<>>
  /\ UNCHANGED <<progVars, echo, backlog, connects, units, blocks, flood, histVars>>

(* ---- main ---- *)
\* lines 164-172: select() returns with the descriptors that are ready
Select ==
  /\ pc = "select"
  /\ LET ready == {s \in set_reads({LISTEN}, list) :
                     IF s = LISTEN THEN backlog > 0 ELSE Readable(s)}
     IN  /\ reads' = ready
         /\ rc' = Cardinality(ready)
  /\ pc' = "kbhit"
  /\ io' = <<>>
  /\ UNCHANGED <<list, participant_count, cursor, echo, envVars, histVars>>

\* lines 164-172 and 486-490: SIGINT arrives while main is blocked in
\* select(); intHandler runs, select() fails with EINTR and leaves the
\* fd_set as it was passed in
SelectInterrupted ==
  /\ pc = "select"
  /\ echo' = TRUE
  /\ reads' = set_reads({LISTEN}, list)
  /\ rc' = -1
  /\ pc' = "kbhit"
  /\ io' = <<>>
  /\ UNCHANGED <<list, participant_count, cursor, envVars, histVars>>

\* mutant: the dispatch on rc comes first, the quit key is only acted on in
\* an iteration without ready sockets
Kbhit_work_before_quit ==
  /\ pc = "kbhit"
  /\ \E ch \in {"none", "q", "Q", "x"} :
     /\ io' = IF ch = "none" THEN <<>>
              ELSE <<Call("getchar", STDIN, FALSE, <<ch>>, 1, NOERROR)>>
     /\ IF rc < 0
        THEN pc' = "stopped" /\ echo' = TRUE /\ UNCHANGED cursor
        ELSE IF rc > 0
        THEN /\ pc' = IF LISTEN \in reads THEN "accept" ELSE "service"
             /\ cursor' = 1
             /\ UNCHANGED echo
        ELSE IF ch \in {"q", "Q"}
        THEN pc' = "mop" /\ UNCHANGED <<cursor, echo>>
        ELSE pc' = "select" /\ UNCHANGED <<cursor, echo>>
  /\ UNCHANGED <<list, participant_count, reads, rc, envVars, histVars>>

\* lines 174-196: the quit check, then the dispatch on rc; ch is the
\* character read from the terminal, "none" when _kbhit() returned 0
Kbhit ==
  /\ pc = "kbhit"
  /\ \E ch \in {"none", "q", "Q", "x"} :
     /\ io' = IF ch = "none" THEN <<>>
              ELSE <<Call("getchar", STDIN, FALSE, <<ch>>, 1, NOERROR)>>
     /\ IF ch \in {"q", "Q"}
        THEN pc' = "mop" /\ UNCHANGED <<cursor, echo>>
        ELSE IF rc < 0
        THEN pc' = "stopped" /\ echo' = TRUE /\ UNCHANGED cursor
        ELSE IF rc > 0
        THEN /\ pc' = IF LISTEN \in reads THEN "accept" ELSE "service"
             /\ cursor' = 1
             /\ UNCHANGED echo
        ELSE pc' = "select" /\ UNCHANGED <<cursor, echo>>
  /\ UNCHANGED <<list, participant_count, reads, rc, envVars, histVars>>

\* lines 191-192 and 212-262: accept() and add_participant
Accept ==
  /\ pc = "accept"
  /\ \E ok \in BOOLEAN :
       LET participant_socket == IF ok /\ backlog > 0 THEN LowestFree ELSE -1
           r == add_participant(list, participant_count, participant_socket)
       IN  /\ list' = r.list
           /\ participant_count' = r.count
           /\ net' = IF participant_socket > 0
                     THEN [net EXCEPT ![participant_socket] = OpenConn]
                     ELSE net
           /\ io' = <<Call("accept", participant_socket, FALSE, <<>>, 0, NOERROR)>>
  /\ backlog' = IF backlog > 0 THEN backlog - 1 ELSE 0
  /\ pc' = "service"
  /\ cursor' = 1
  /\ UNCHANGED <<reads, rc, echo, connects, units, blocks, closes, flood, histVars>>

\* lines 313-319: the while loop of service_participants up to the next
\* participant whose socket is set in the fd_set
ServiceNext ==
  /\ pc = "service"
  /\ cursor <= Len(list)
  /\ IF list[cursor].socket \in reads
     THEN pc' = "parse" /\ UNCHANGED cursor
     ELSE cursor' = cursor + 1 /\ UNCHANGED pc
  /\ io' = <<>>
  /\ UNCHANGED <<list, participant_count, reads, rc, echo, envVars, histVars>>

\* the state after terminate_participants(ctx, force_all)
Terminated(force_all) ==
  LET r == terminate_participants(list, participant_count, force_all)
      g == {r.gone[i] : i \in 1..Len(r.gone)}
  IN  /\ list' = r.list
      /\ participant_count' = r.count
      /\ net' = [s \in Sockets |-> IF s \in g THEN FreeConn ELSE net[s]]
      /\ received' = [s \in Sockets |-> IF s \in g THEN <<>> ELSE received[s]]
      /\ emitted' = [s \in Sockets |-> IF s \in g THEN <<>> ELSE emitted[s]]
      /\ io' = [i \in 1..Len(r.gone) |->
                  Call("close", r.gone[i], TRUE, <<>>, 0, NOERROR)]

\* mutant: service_participants returns without terminate_participants
ServiceEnd_without_compaction ==
  /\ pc = "service"
  /\ cursor > Len(list)
  /\ pc' = "select"
  /\ io' = <<>>
  /\ UNCHANGED <<list, participant_count, reads, rc, cursor, echo, envVars, histVars>>

\* line 326: the end of service_participants
ServiceEnd ==
  /\ pc = "service"
  /\ cursor > Len(list)
  /\ Terminated(FALSE)
  /\ pc' = "select"
  /\ UNCHANGED <<reads, rc, cursor, echo, backlog, connects, units, blocks, closes, flood>>

\* lines 200-207: leaving the loop through break
Mop ==
  /\ pc = "mop"
  /\ Terminated(TRUE)
  /\ echo' = TRUE
  /\ pc' = "stopped"
  /\ UNCHANGED <<reads, rc, cursor, backlog, connects, units, blocks, closes, flood>>

\* line 341: what realloc(buffer, max_length) returns.  A negative max_length
\* is converted to a size_t above the address space (NULL) or, where size_t
\* is no wider than int, to 2^(IntWidth-1), which the allocator may grant
NULL == "NULL"
ReallocResults(p) == IF p.max_length < 0 THEN {NULL, "block"} ELSE {"block"}

\* the history of a connection is kept only in runs in which the streams end
Recorded(old, new) == IF flood THEN old ELSE new

\* lines 334-371: one iteration of the do-while loop of parse_data for the
\* participant at the cursor: grow, recv, and on data scan, share, compact;
\* assert(participant->buffer) ends the process when realloc returned NULL
ParseStep ==
  /\ pc = "parse"
  /\ LET p1 == grow(list[cursor])
         s  == p1.socket
     IN \E alloc \in ReallocResults(p1) :
        IF alloc = NULL
        THEN /\ pc' = "aborted"
             /\ list' = [list EXCEPT ![cursor] = p1]
             /\ io' = <<>>
             /\ UNCHANGED <<cursor, net, received, emitted>>
        ELSE
        \E r \in RecvResults(s, p1.max_length - p1.length) :
          LET rcv == Call("recv", s, list[cursor].closed, <<>>, r.n, r.errno)
          IN
          /\ net' = [net EXCEPT ![s].inflight = SubSeq(@, Len(r.data) + 1, Len(@))]
          /\ received' = Recorded(received, [received EXCEPT ![s] = @ \o r.data])
          /\ IF r.n <= 0
             THEN /\ list' = [list EXCEPT ![cursor] =
                                [p1 EXCEPT !.closed = @ \/ marks_closed(r.n, r.errno)]]
                  /\ io' = <<rcv>>
                  /\ UNCHANGED emitted
             ELSE LET f == scan(p1, r.data)
                  IN IF f.size = 0
                     THEN /\ list' = [list EXCEPT ![cursor] = f.p]
                          /\ io' = <<rcv>>
                          /\ UNCHANGED emitted
                     ELSE \E outcome \in [1..Len(list) -> SendOutcomes(f.size)] :
                            LET shared == share_data(f.p.buffer, f.size,
                                                     [list EXCEPT ![cursor] = f.p], outcome)
                            IN
                            /\ list' = [shared.list EXCEPT ![cursor] = compact(@, f.size)]
                            /\ emitted' = Recorded(emitted, [emitted EXCEPT
                                             ![s] = Append(@, SubSeq(f.p.buffer, 1, f.size))])
                            /\ io' = <<rcv>> \o shared.sends
          /\ IF r.n > 0
             THEN UNCHANGED <<pc, cursor>>
             ELSE pc' = "service" /\ cursor' = cursor + 1
  /\ UNCHANGED <<participant_count, reads, rc, echo, backlog, connects, units, blocks,
                 closes, flood>>

Next ==
  \/ Select
  \/ SelectInterrupted
  \/ Kbhit
  \/ Accept
  \/ ServiceNext
  \/ ServiceEnd
  \/ Mop
  \/ ParseStep
  \/ ClientConnect
  \/ ClientSend
  \/ ClientClose
  \/ ClientReset

Spec == Init /\ [][Next]_vars

SpecPair == InitPair /\ [][Next]_vars

SpecFramer == InitFramer /\ [][Next]_vars

SpecGrowth == InitGrowth /\ [][Next]_vars

\* the steps of the process itself: main is one thread that is always
\* scheduled, and select() returns after its timeout at the latest
Program ==
  Select \/ Kbhit \/ Accept \/ ServiceNext \/ ServiceEnd \/ Mop \/ ParseStep

SpecLive == InitLive /\ [][Next]_vars /\ WF_vars(Program)

TypeOK ==
  /\ pc \in {"select", "kbhit", "accept", "service", "parse", "mop", "stopped",
             "aborted"}
  /\ \A i \in 1..Len(list) : list[i].socket \in Sockets

(* ---- vocabulary of the properties ---- *)
RECURSIVE Flatten(_)
Flatten(msgs) == IF msgs = <<>> THEN <<>> ELSE Head(msgs) \o Flatten(Tail(msgs))

\* number of occurrences of the terminator in a byte string
RECURSIVE Occurrences(_)
Occurrences(bytes) ==
  IF Len(bytes) < terminator_length THEN 0
  ELSE (IF SubSeq(bytes, 1, terminator_length) = terminator_string THEN 1 ELSE 0)
       + Occurrences(Tail(bytes))

EndsAtTerminator(m) ==
  /\ Len(m) >= terminator_length
  /\ SubSeq(m, Len(m) - terminator_length + 1, Len(m)) = terminator_string

IndexOf(s) == CHOOSE i \in 1..Len(list) : list[i].socket = s

Sends == SelectSeq(io, LAMBDA e : e.op = "send")

\* the last step was a recv() that reported would-block: a drain cycle ended
DrainEnded == /\ Len(io) = 1
              /\ io[1].op = "recv"
              /\ io[1].n = -1
              /\ io[1].errno = EAGAIN

\* the last step was a recv() that reported end of stream or a hard error
RecvFailed(e) == /\ e.op = "recv"
                 /\ (e.n = 0 \/ (e.n = -1 /\ e.errno # EAGAIN))

(* ---- C1 ---- *)
\* C1: when a drain cycle ends, the participant's connection has had exactly
\* as many messages broadcast as its received bytes hold terminators, and each
\* message ends at a terminator and holds no other one.
C1_KMessagesForKTerminators ==
  DrainEnded =>
    LET s == io[1].sock
    IN  /\ Len(emitted[s]) = Occurrences(received[s])
        /\ \A k \in 1..Len(emitted[s]) :
             /\ EndsAtTerminator(emitted[s][k])
             /\ Occurrences(emitted[s][k]) = 1

(* ---- C2 ---- *)
DistinctSockets ==
  \A i, j \in 1..Len(list) : list[i].socket = list[j].socket => i = j

\* C2: a broadcast makes exactly one send() call per participant of the
\* registry, the sender included, each with the very bytes of the message
\* completed from the sender's stream.
C2_FanOut ==
  Sends # <<>> =>
    LET a   == io[1].sock
        msg == emitted[a][Len(emitted[a])]
        all == Flatten(emitted[a])
    IN  /\ DistinctSockets
        /\ Len(Sends) = Len(list)
        /\ \A i \in 1..Len(list) :
             /\ Sends[i].sock = list[i].socket
             /\ Sends[i].data = msg
        /\ \E i \in 1..Len(list) : Sends[i].sock = a
        /\ EndsAtTerminator(msg)
        /\ Len(all) <= Len(received[a])
        /\ all = SubSeq(received[a], 1, Len(all))

W2_ThreeReceiveTheMessage ==
  /\ Len(list) = 3
  /\ Len(Sends) = 3
  /\ \A i \in 1..3 : Sends[i].n = Len(Sends[i].data)

(* ---- C3 ---- *)
\* C3: no recv() and no send() is made on the socket of a participant whose
\* closed flag is already set.
C3_ClosedNeverUsed ==
  \A k \in 1..Len(io) : io[k].op \in {"recv", "send"} => ~io[k].closed

(* ---- C4 ---- *)
\* C4: after a broadcast, every participant whose send() returned less than
\* the length of the message (an error or a partial write) has closed set.
C4_ShortWriteCloses ==
  \A k \in 1..Len(Sends) :
    Sends[k].n < Len(Sends[k].data) => list[IndexOf(Sends[k].sock)].closed

(* ---- C5 ---- *)
NotClosed(p) == ~p.closed
IsClosed(p) == p.closed

CompactionStep == pc = "service" /\ pc' = "select"

\* the compaction removes the closed entries, and only them
RemovesClosed ==
  /\ list' = SelectSeq(list, NotClosed)
  /\ participant_count' = participant_count - Len(SelectSeq(list, IsClosed))
  /\ \A i \in 1..Len(list) :
       list[i].closed => net'[list[i].socket].state = "free"

\* a closed entry stays in the list, closed, until a compaction
ClosedPersists ==
  \A i \in 1..Len(list) :
    list[i].closed =>
      \/ CompactionStep
      \/ pc = "mop"
      \/ /\ i <= Len(list')
         /\ list'[i].socket = list[i].socket
         /\ list'[i].closed

\* a send() that fails closes its participant and every other participant is
\* still sent the same message
FailureDoesNotAbort ==
  \A k \in 1..Len(Sends) :
    Sends[k].n <= 0 =>
      /\ Len(Sends) = Len(list)
      /\ list[k].closed
      /\ \A j \in 1..Len(list) :
           /\ Sends[j].sock = list[j].socket
           /\ Sends[j].data = Sends[k].data
           /\ Sends[j].n > 0 => list[j].closed = Sends[j].closed

\* C5: a failed write to one participant leaves the writes to the others in
\* place, and the next compaction removes that participant (socket closed,
\* count decremented) and keeps the participants that are not closed.
C5_FailureIsolated ==
  /\ []FailureDoesNotAbort
  /\ [][ClosedPersists]_vars
  /\ [][CompactionStep => RemovesClosed]_vars

W5_MiddleWriteFails ==
  /\ Len(list) = 3
  /\ Len(Sends) = 3
  /\ Sends[1].n = Len(Sends[1].data)
  /\ Sends[2].n = -1
  /\ Sends[3].n = Len(Sends[3].data)
  /\ ~list[1].closed /\ list[2].closed /\ ~list[3].closed

FailedRecvCloses ==
  (pc = "parse" /\ io' # <<>> /\ RecvFailed(io'[1])) =>
    /\ list'[cursor].closed
    /\ list'[cursor].buffer = list[cursor].buffer
    /\ Len(io') = 1
    /\ emitted' = emitted
    /\ pc' = "service"
    /\ cursor' = cursor + 1

\* within a service pass, nothing is broadcast from the buffer of a
\* participant the pass has already gone past
PassedNotBroadcast ==
  (pc \in {"service", "parse"} /\ ~CompactionStep) =>
    \A i \in 1..Len(list) :
      i < cursor =>
        /\ emitted'[list[i].socket] = emitted[list[i].socket]
        /\ list'[i].buffer = list[i].buffer

\* C7: a recv() returning 0 or a hard error marks the participant closed and
\* broadcasts nothing; the bytes left in its buffer are not broadcast later in
\* the pass, and the compaction ending the pass removes the participant.
C7_PartialDiscarded ==
  /\ [][FailedRecvCloses]_vars
  /\ [][PassedNotBroadcast]_vars
  /\ [][ClosedPersists /\ (CompactionStep => SocketsOf(list') \cap
          {list[i].socket : i \in {j \in 1..Len(list) : list[j].closed}} = {})]_vars

W7_ClosedWithPartialMessage ==
  /\ pc = "service"
  /\ Len(io) = 1
  /\ RecvFailed(io[1])
  /\ LET p == list[IndexOf(io[1].sock)]
     IN  /\ p.closed
         /\ p.buffer # <<>>
         /\ memmem(p.buffer, terminator_string) = -1

(* ---- C8 ---- *)
\* C8: once main has left the loop, every connection is closed, the list is
\* empty and participant_count is 0.  (In this model the loop is left only on
\* a q/Q keypress or on a SIGINT.)
C8_StoppedMeansEmpty ==
  pc = "stopped" =>
    /\ list = <<>>
    /\ participant_count = 0
    /\ \A s \in Sockets : net[s].state = "free"

(* ---- C9 ---- *)
\* C9: terminate_participants(ctx, false) applied to the result of
\* terminate_participants(ctx, false) closes no socket and leaves the list and
\* participant_count as they are.
C9_CompactionIdempotent ==
  LET r1 == terminate_participants(list, participant_count, FALSE)
      r2 == terminate_participants(r1.list, r1.count, FALSE)
  IN  /\ r2.gone = <<>>
      /\ r2.list = r1.list
      /\ r2.count = r1.count

W9_CompactedSomeKeptSome ==
  /\ pc = "select"
  /\ io # <<>>
  /\ io[1].op = "close"
  /\ list # <<>>

(* ---- C10 ---- *)
\* C10: when a drain cycle ends on would-block, the participant's buffer holds
\* no complete terminator.
C10_ResidualHasNoTerminator ==
  DrainEnded =>
    memmem(list[IndexOf(io[1].sock)].buffer, terminator_string) = -1

(* ---- C11 ---- *)
\* the bytes a step appended to the receive history of socket s
NewBytes(s) == SubSeq(received'[s], Len(received[s]) + 1, Len(received'[s]))

\* C11: when the buffer of the participant being drained holds no terminator
\* and a recv() brings the bytes that complete one, the scan start computed
\* from the length before the recv() is not after the first byte of that
\* terminator, and the message up to the terminator is passed to share_data
\* in the same step, wherever the terminator was split.
C11_SplitTerminatorFound ==
  [][(pc = "parse" /\ received' # received) =>
       LET s   == list[cursor].socket
           old == list[cursor].buffer
           all == old \o NewBytes(s)
           at  == memmem(all, terminator_string)
       IN  (memmem(old, terminator_string) = -1 /\ at # -1) =>
             /\ onset_of(Len(old)) <= at
             /\ emitted'[s] = Append(emitted[s], SubSeq(all, 1, at + terminator_length))
    ]_vars

\* a recv() of fewer bytes than a terminator completed the only terminator of
\* the stream, and the message was sent
W11_SplitTerminatorSent ==
  /\ Len(io) > 1
  /\ io[1].op = "recv"
  /\ io[1].n \in 1..(terminator_length - 1)
  /\ Occurrences(received[io[1].sock]) = 1
  /\ Len(emitted[io[1].sock]) = 1
  /\ io[2].op = "send"
  /\ EndsAtTerminator(io[2].data)

(* ---- C12 ---- *)
\* the last step read a quit key from the terminal
QuitRead == /\ io # <<>>
            /\ io[1].op = "getchar"
            /\ io[1].data[1] \in {"q", "Q"}

\* C12 as stated: when the loop has been left on a quit key, the accept and
\* the drain cycles that select() reported in that iteration have been done.
C12_QuitAfterIterationWork ==
  (pc = "mop" /\ rc > 0) =>
    /\ LISTEN \in reads => backlog = 0
    /\ \A i \in 1..Len(list) :
         list[i].socket \in reads => net[list[i].socket].inflight = <<>>

\* C12, amended: the step that reads a quit key leaves the loop at once,
\* without accept() or recv() and leaving the list, the listen queue and the
\* connections as select() saw them, and the next step of the program is the
\* forced compaction, which closes every participant and empties the list.
C12_QuitSkipsIterationWork ==
  [][/\ QuitRead' =>
          /\ pc' = "mop"
          /\ UNCHANGED <<list, participant_count, net, backlog, received, emitted>>
     /\ pc = "mop" =>
          /\ pc' = "stopped"
          /\ list' = <<>>
          /\ Len(io') = Len(list)
          /\ \A i \in 1..Len(list) :
               io'[i].op = "close" /\ io'[i].sock = list[i].socket
    ]_vars

\* the loop was left on a quit key while a connection waited in the listen
\* queue and a participant had data to read, both reported by select()
W12_QuitWithPendingWork ==
  /\ pc = "mop"
  /\ QuitRead
  /\ rc > 0
  /\ LISTEN \in reads
  /\ backlog > 0
  /\ \E i \in 1..Len(list) :
       list[i].socket \in reads /\ net[list[i].socket].inflight # <<>>

(* ---- C13 ---- *)
\* C13: under fair scheduling of the process every loop iteration completes,
\* whatever the clients do: again and again main is at its quit check, or
\* has left the loop.
C13_QuitCheckNotStarved == []<>(pc \in {"kbhit", "stopped"})

(* ---- C14 ---- *)
\* C14: whenever main is about to build its fd_set and call select(), no
\* participant of the list has closed = TRUE.
C14_NoClosedAtSelect ==
  pc = "select" => \A i \in 1..Len(list) : ~list[i].closed

\* main is back at select() and the compaction that ended the iteration has
\* just closed the socket of a participant flagged in that iteration
W14_ClosedRemovedBeforeSelect ==
  /\ pc = "select"
  /\ \E i \in 1..Len(io) : io[i].op = "close" /\ net[io[i].sock].state = "free"

(* ---- C15 ---- *)
\* the descriptors of a list, in list order
SocketSeq(lst) == [i \in 1..Len(lst) |-> lst[i].socket]

\* the step is a call of terminate_participants
TerminateStep == pc = "mop" \/ (pc = "service" /\ cursor > Len(list))

\* C15: an entry leaves the list, and its socket is closed, only in a step
\* that is a call of terminate_participants; from the start of a service pass
\* to its end the list holds the same entries in the same order, whatever
\* recv() and send() report; and every recv() and send() is made on the
\* still open socket of an entry of the list.
C15_RemovalOnlyInCompaction ==
  [][/\ ~TerminateStep =>
          /\ \A i \in 1..Len(list) :
               /\ i <= Len(list')
               /\ list'[i].socket = list[i].socket
               /\ net'[list[i].socket].state = "open"
     /\ (pc \in {"service", "parse"} /\ ~TerminateStep) =>
          SocketSeq(list') = SocketSeq(list)
     /\ \A i \in 1..Len(io') :
          io'[i].op \in {"recv", "send"} =>
            /\ io'[i].sock \in SocketsOf(list)
            /\ net[io'[i].sock].state = "open"
    ]_vars

\* the service pass is at a later entry while an entry it has flagged
\* closed is still in the list with its socket open
W15_ClosedEntryStillLinked ==
  /\ pc \in {"service", "parse"}
  /\ cursor <= Len(list)
  /\ \E i \in 1..(cursor - 1) :
       list[i].closed /\ net[list[i].socket].state = "open"

(* ---- C16 ---- *)
\* C16: for every participant of the list, 0 <= length <= max_length.
C16_LengthWithinCapacity ==
  \A i \in 1..Len(list) :
    0 <= list[i].length /\ list[i].length <= list[i].max_length

(* ---- C17 ---- *)
\* C17: participant_count is the number of entries of the list and is never
\* negative, in every state between two operations: also after an accept()
\* that failed and after a compaction that removed entries.
C17_CountIsListLength ==
  /\ participant_count = Len(list)
  /\ participant_count >= 0

\* an accept() has just failed while the list holds participants
W17_AcceptFailedListKept ==
  /\ io # <<>>
  /\ io[1].op = "accept"
  /\ io[1].sock <= 0
  /\ list # <<>>

(* ---- C18 ---- *)
\* C18: before every recv() the free space max_length - length, after the
\* growth step of that iteration, is at least buffer_chunk_size.
C18_RoomBeforeRecv ==
  pc = "parse" =>
    LET p == grow(list[cursor])
    IN  p.max_length - p.length >= buffer_chunk_size

(* ---- C20 ---- *)
\* C20: the capacity of every buffer is 0 (nothing allocated yet) or
\* buffer_chunk_size * 2^k, never negative, and never below the number of
\* bytes buffered, however long the stream without a terminator is.
C20_GrowthNeverWraps ==
  \A i \in 1..Len(list) :
    /\ \/ list[i].max_length = 0
       \/ \E k \in 0..IntWidth : list[i].max_length = buffer_chunk_size * 2 ^ k
    /\ list[i].max_length >= list[i].length

(* ---- C19 ---- *)
\* C19: a step of the program receives at most once, and first; when it
\* broadcasts, it writes one and the same message, the one just extracted
\* from the receiving connection, to every participant in list order before
\* anything else is received or broadcast; and the messages extracted from a
\* connection are, in order, consecutive pieces of that connection's stream.
C19_OneBroadcastOrder ==
  /\ \A i \in 2..Len(io) : io[i].op # "recv"
  /\ Sends # <<>> =>
       /\ io[1].op = "recv"
       /\ \A i \in 2..Len(io) : io[i].op = "send"
       /\ Len(Sends) = Len(list)
       /\ \A i \in 1..Len(Sends) :
            /\ Sends[i].sock = list[i].socket
            /\ Sends[i].data = emitted[io[1].sock][Len(emitted[io[1].sock])]
  /\ \A s \in Sockets :
       /\ Len(Flatten(emitted[s])) <= Len(received[s])
       /\ Flatten(emitted[s]) = SubSeq(received[s], 1, Len(Flatten(emitted[s])))

\* the second message of a connection has just been written, completely, to
\* both participants
W19_SecondMessageToBoth ==
  /\ Len(Sends) = 2
  /\ Len(emitted[io[1].sock]) = 2
  /\ \A i \in 1..2 : Sends[i].n = Len(Sends[i].data) /\ ~list[i].closed

====
